---------------------------- MODULE Spec2Model ----------------------------
(***************************************************************************)
(* Model of torso.py: generate_slide, generate_tone and the generate_video *)
(* driver.                                                                 *)
(*                                                                         *)
(* Three specifications share the module:                                  *)
(*   SpecSlide  one call of generate_slide on drawn arguments              *)
(*   SpecTone   one call of generate_tone on drawn arguments               *)
(*   Spec       one run of generate_video, statement by statement          *)
(*                                                                         *)
(* Representation choices:                                                 *)
(*   - text is a sequence of one-character strings;                        *)
(*   - a duration is a whole number of time units, TimeUnits units making  *)
(*     one second, so sample_rate * duration is the exact rational         *)
(*     sample_rate * units / TimeUnits (floating-point error is not        *)
(*     modelled);                                                          *)
(*   - a tone buffer is its frame count, channel count and frequency (the  *)
(*     samples are a function of these);                                   *)
(*   - a frame's pixels are its size and its caption inside generate_video;*)
(*     the rectangles are kept by SpecSlide;                               *)
(*   - a random draw ranges over the RandSpread lowest and RandSpread      *)
(*     highest values of its interval.                                     *)
(***************************************************************************)
EXTENDS Integers, Sequences, FiniteSets, TLC

(* ------------------------------ bounds -------------------------------- *)
RandSpread == 2
TimeUnits == 700
MaxSlides == 3
LongRun == 12

(* ------------------------- program constants -------------------------- *)
SAMPLE_RATE == 96000
MinRectSize == 50
PadWidth == 4

VARIABLES
    s_args, s_result, s_pc,
    t_args, t_result, t_pc,
    args, pc, i, slide_clips, audio_segments, video, audio_clip,
    error, gen_log, write_attempts, output_file

slideVars == <<s_args, s_result, s_pc>>
toneVars == <<t_args, t_result, t_pc>>
videoVars == <<args, pc, i, slide_clips, audio_segments, video, audio_clip,
               error, gen_log, write_attempts, output_file>>
vars == <<s_args, s_result, s_pc, t_args, t_result, t_pc,
          args, pc, i, slide_clips, audio_segments, video, audio_clip,
          error, gen_log, write_attempts, output_file>>

(* ------------------------------ helpers ------------------------------- *)
Min(a, b) == IF a <= b THEN a ELSE b
Max(a, b) == IF a >= b THEN a ELSE b

\* random.randint(a, b): the set of values a draw can return; the empty set
\* stands for the ValueError "empty range for randrange()".
RandInt(a, b) == {v \in a..b : v < a + RandSpread \/ v > b - RandSpread}

\* random.uniform(a, b) = a + (b - a) * random(): a value between the two
\* arguments, whichever is larger; no error for a > b.
Uniform(a, b) == RandInt(Min(a, b), Max(a, b))

\* int(n / d) for d > 0: truncation toward zero.
Trunc(n, d) == IF n >= 0 THEN n \div d ELSE -((-n) \div d)

\* round(n / d) for n >= 0, d > 0: nearest integer, ties to even.
Round(n, d) ==
    LET q == n \div d
        r == n % d
    IN  IF 2 * r < d THEN q
        ELSE IF 2 * r > d THEN q + 1
        ELSE IF q % 2 = 0 THEN q ELSE q + 1

(* ---------------------------- text format ----------------------------- *)
DigitChars == <<"0", "1", "2", "3", "4", "5", "6", "7", "8", "9">>

RECURSIVE DecDigits(_)
DecDigits(n) ==
    IF n < 10 THEN <<DigitChars[n + 1]>>
    ELSE DecDigits(n \div 10) \o <<DigitChars[(n % 10) + 1]>>

RECURSIVE ZeroPad(_, _)
ZeroPad(s, w) == IF Len(s) >= w THEN s ELSE ZeroPad(<<"0">> \o s, w)

\* f"{n:04d}": at least four characters, the sign included.
FormatNoPad(n) ==
    IF n < 0 THEN <<"-">> \o DecDigits(-n) ELSE DecDigits(n)

Format04d(n) ==
    IF n < 0 THEN <<"-">> \o ZeroPad(DecDigits(-n), PadWidth - 1)
    ELSE ZeroPad(DecDigits(n), PadWidth)

SlideInfix == <<" ", "-", " ", "s", "l", "i", "d", "e", " ">>

\* f"{file_name} - slide {slide_number:04d}"
SlideText(file_name, slide_number) ==
    file_name \o SlideInfix \o Format04d(slide_number)

(* --------------------------- generate_slide --------------------------- *)
NoRect == [rect_width |-> 0, rect_height |-> 0, x |-> 0, y |-> 0,
           coords |-> <<>>]

RectSizeClamped(dim) == RandInt(Min(MinRectSize, dim \div 2), dim \div 2)

\* random.randint(50, width // 2)
RectSize(dim) == RandInt(MinRectSize, dim \div 2)

RectPosNoFit(dim, size) == RandInt(0, dim)

\* random.randint(0, width - rect_width)
RectPos(dim, size) == RandInt(0, dim - size)

\* The four draws of one rectangle and its corner tuple.
Rects(width, height) ==
    UNION { { [rect_width |-> w, rect_height |-> h, x |-> x, y |-> y,
               coords |-> <<x, y, x + w, y + h>>]
              : x \in RectPos(width, w), y \in RectPos(height, h) }
            : w \in RectSize(width), h \in RectSize(height) }

SlideFail(err, blue, red) ==
    [status |-> err, blue |-> blue, red |-> red, text |-> <<>>,
     size |-> <<0, 0>>]

\* Every outcome of generate_slide(slide_number, width, height, font, ...,
\* file_name); font_ok says whether the font file can be opened.
GenerateSlide(slide_number, width, height, font_ok, file_name) ==
    IF width < 0 \/ height < 0
    THEN {SlideFail("ValueError", NoRect, NoRect)}
    ELSE IF Rects(width, height) = {}
    THEN {SlideFail("ValueError", NoRect, NoRect)}
    ELSE IF ~font_ok
    THEN {SlideFail("OSError", b, r)
            : b \in Rects(width, height), r \in Rects(width, height)}
    ELSE {[status |-> "ok", blue |-> b, red |-> r,
           text |-> SlideText(file_name, slide_number),
           size |-> <<width, height>>]
            : b \in Rects(width, height), r \in Rects(width, height)}

(* ---------------------------- generate_tone --------------------------- *)
NoBuffer == [frames |-> 0, channels |-> 0, frequency |-> 0]

ToneFramesRounded(duration, sample_rate) ==
    IF sample_rate * duration >= 0
    THEN Round(sample_rate * duration, TimeUnits)
    ELSE -Round(-(sample_rate * duration), TimeUnits)

\* int(sample_rate * duration)
ToneFrames(duration, sample_rate) == Trunc(sample_rate * duration, TimeUnits)

\* Every outcome of generate_tone(duration, sample_rate, min_freq, max_freq);
\* np.linspace raises ValueError for a negative number of samples.
GenerateTone(duration, sample_rate, min_freq, max_freq) ==
    IF ToneFrames(duration, sample_rate) < 0
    THEN {[status |-> "ValueError", buffer |-> NoBuffer]}
    ELSE {[status |-> "ok",
           buffer |-> [frames |-> ToneFrames(duration, sample_rate),
                       channels |-> 2, frequency |-> f]]
            : f \in Uniform(min_freq, max_freq)}

(* ------------------- idle values of unused variables ------------------ *)
NoSlideArgs == [slide_number |-> 0, width |-> 0, height |-> 0,
                font_ok |-> FALSE, file_name |-> <<>>]
NoToneArgs == [duration |-> 0, sample_rate |-> 0, min_freq |-> 0,
               max_freq |-> 0]
NoVideoArgs == [width |-> 0, height |-> 0, num_slides |-> 0,
                slide_duration |-> 0, font_ok |-> FALSE,
                displayed_file_name |-> <<>>, min_freq |-> 0, max_freq |-> 0]
NoSlideResult == SlideFail("none", NoRect, NoRect)
NoToneResult == [status |-> "none", buffer |-> NoBuffer]
NoVideo == [built |-> FALSE, clips |-> <<>>, duration |-> 0, size |-> <<0, 0>>,
            has_audio |-> FALSE]
NoAudio == [built |-> FALSE, frames |-> 0, fps |-> 0]

SlideIdle ==
    /\ s_args = NoSlideArgs
    /\ s_result = NoSlideResult
    /\ s_pc = "idle"

ToneIdle ==
    /\ t_args = NoToneArgs
    /\ t_result = NoToneResult
    /\ t_pc = "idle"

VideoIdle ==
    /\ args = NoVideoArgs
    /\ pc = "idle"
    /\ i = 0
    /\ slide_clips = <<>>
    /\ audio_segments = <<>>
    /\ video = NoVideo
    /\ audio_clip = NoAudio
    /\ error = "none"
    /\ gen_log = <<>>
    /\ write_attempts = 0
    /\ output_file = "none"

(* ------------------------------ inputs -------------------------------- *)
AquaFlv == <<"a", "q", "u", "a", ".", "f", "l", "v">>
XAvi == <<"x", ".", "a", "v", "i">>
FileNames == {AquaFlv, XAvi}

SlideWidths == {-1, 0, 50, 99, 100, 101}
SlideHeights == {50, 100, 102}
SlideNumbers == {-7, 7, 123, 10000}

ToneDurations == {-TimeUnits, -1, 0, 1, 4, TimeUnits}
ToneRates == {-SAMPLE_RATE, 0, 3, SAMPLE_RATE}
FreqRanges == {<<400, 1000>>, <<400, 400>>, <<1000, 400>>}

VideoSizes == {<<100, 100>>, <<50, 50>>, <<100, 50>>}
VideoDurations == {-TimeUnits, 0, 1, 4, TimeUnits}

(* --------------------- specification: generate_slide ------------------ *)
InitSlide ==
    /\ s_args \in [slide_number : SlideNumbers, width : SlideWidths,
                   height : SlideHeights, font_ok : BOOLEAN,
                   file_name : {AquaFlv}]
    /\ s_result = NoSlideResult
    /\ s_pc = "call"
    /\ ToneIdle
    /\ VideoIdle

CallGenerateSlide ==
    /\ s_pc = "call"
    /\ s_result' \in GenerateSlide(s_args.slide_number, s_args.width,
                                   s_args.height, s_args.font_ok,
                                   s_args.file_name)
    /\ s_pc' = "returned"
    /\ UNCHANGED <<s_args, toneVars, videoVars>>

NextSlide == CallGenerateSlide

SpecSlide == InitSlide /\ [][NextSlide]_vars

(* --------------------- specification: generate_tone ------------------- *)
InitTone ==
    /\ \E d \in ToneDurations, sr \in ToneRates, fr \in FreqRanges :
          t_args = [duration |-> d, sample_rate |-> sr, min_freq |-> fr[1],
                    max_freq |-> fr[2]]
    /\ t_result = NoToneResult
    /\ t_pc = "call"
    /\ SlideIdle
    /\ VideoIdle

CallGenerateTone ==
    /\ t_pc = "call"
    /\ t_result' \in GenerateTone(t_args.duration, t_args.sample_rate,
                                  t_args.min_freq, t_args.max_freq)
    /\ t_pc' = "returned"
    /\ UNCHANGED <<t_args, slideVars, videoVars>>

NextTone == CallGenerateTone

SpecTone == InitTone /\ [][NextTone]_vars

(* --------------------- specification: generate_video ------------------ *)
\* range(1, ...): the first slide index
FirstIndex == 1

LoopStopOneMore(num_slides) == num_slides + 2

\* range(..., num_slides + 1): the first index not generated
LoopStop(num_slides) == num_slides + 1

RECURSIVE SumDurations(_)
SumDurations(clips) ==
    IF clips = <<>> THEN 0
    ELSE clips[1].duration + SumDurations(Tail(clips))

RECURSIVE SumFrames(_)
SumFrames(segments) ==
    IF segments = <<>> THEN 0
    ELSE segments[1].frames + SumFrames(Tail(segments))

RECURSIVE MaxSide(_, _)
MaxSide(clips, k) ==
    IF Len(clips) = 1 THEN clips[1].frame.size[k]
    ELSE Max(clips[1].frame.size[k], MaxSide(Tail(clips), k))

\* concatenate_videoclips(clips, method="compose") on a non-empty list: the
\* clips in input order, total duration the sum of the clips' durations.
ConcatenateVideoclips(clips) ==
    [built |-> TRUE, clips |-> clips, duration |-> SumDurations(clips),
     size |-> <<MaxSide(clips, 1), MaxSide(clips, 2)>>,
     has_audio |-> FALSE]

AudioArrayClipDropFirst(segments) ==
    [built |-> TRUE, frames |-> SumFrames(Tail(segments)),
     fps |-> SAMPLE_RATE]

\* AudioArrayClip(np.concatenate(segments, axis=0), fps=SAMPLE_RATE)
AudioArrayClip(segments) ==
    [built |-> TRUE, frames |-> SumFrames(segments), fps |-> SAMPLE_RATE]

VideoArgs ==
    { [width |-> sz[1], height |-> sz[2], num_slides |-> n,
       slide_duration |-> d, font_ok |-> f, displayed_file_name |-> nm,
       min_freq |-> fr[1], max_freq |-> fr[2]]
        : sz \in VideoSizes, n \in 0..MaxSlides, d \in VideoDurations,
          f \in BOOLEAN, nm \in FileNames, fr \in FreqRanges }
    \cup
    { [width |-> 100, height |-> 100, num_slides |-> LongRun,
       slide_duration |-> 4, font_ok |-> TRUE,
       displayed_file_name |-> AquaFlv, min_freq |-> 400, max_freq |-> 400] }

Init ==
    /\ args \in VideoArgs
    /\ pc = "for"
    /\ i = FirstIndex - 1
    /\ slide_clips = <<>>
    /\ audio_segments = <<>>
    /\ video = NoVideo
    /\ audio_clip = NoAudio
    /\ error = "none"
    /\ gen_log = <<>>
    /\ write_attempts = 0
    /\ output_file = "none"
    /\ SlideIdle
    /\ ToneIdle

ForNextRetry ==
    /\ pc \in {"for", "failed"}
    /\ IF pc = "failed"
       THEN /\ pc' = "write"
            /\ i' = i
       ELSE IF i + 1 < LoopStop(args.num_slides)
       THEN /\ i' = i + 1
            /\ pc' = "slide"
       ELSE /\ i' = i
            /\ pc' = "concat_video"
    /\ UNCHANGED <<args, slide_clips, audio_segments, video, audio_clip,
                   error, gen_log, write_attempts, output_file,
                   slideVars, toneVars>>

\* for i in range(1, num_slides + 1): advance to the next index, or leave
\* the loop when the range is exhausted.
ForNext ==
    /\ pc = "for"
    /\ IF i + 1 < LoopStop(args.num_slides)
       THEN /\ i' = i + 1
            /\ pc' = "slide"
       ELSE /\ i' = i
            /\ pc' = "concat_video"
    /\ UNCHANGED <<args, slide_clips, audio_segments, video, audio_clip,
                   error, gen_log, write_attempts, output_file,
                   slideVars, toneVars>>

\* pil_image = generate_slide(i, ...); frame = np.array(pil_image);
\* clip = ImageClip(frame).set_duration(slide_duration); append.
LoopSlide ==
    /\ pc = "slide"
    /\ gen_log' = Append(gen_log, i)
    /\ \E r \in GenerateSlide(i, args.width, args.height, args.font_ok,
                              args.displayed_file_name) :
          IF r.status = "ok"
          THEN /\ slide_clips' = Append(slide_clips,
                     [frame |-> [size |-> r.size, text |-> r.text],
                      duration |-> args.slide_duration])
               /\ pc' = "tone"
               /\ error' = error
          ELSE /\ slide_clips' = slide_clips
               /\ pc' = "failed"
               /\ error' = r.status
    /\ UNCHANGED <<args, i, audio_segments, video, audio_clip,
                   write_attempts, output_file, slideVars, toneVars>>

LoopToneNoAppend ==
    /\ pc = "tone"
    /\ \E r \in GenerateTone(args.slide_duration, SAMPLE_RATE,
                             args.min_freq, args.max_freq) :
          IF r.status = "ok"
          THEN /\ audio_segments' = audio_segments
               /\ pc' = "for"
               /\ error' = error
          ELSE /\ audio_segments' = audio_segments
               /\ pc' = "failed"
               /\ error' = r.status
    /\ UNCHANGED <<args, i, slide_clips, video, audio_clip, gen_log,
                   write_attempts, output_file, slideVars, toneVars>>

\* tone = generate_tone(slide_duration, SAMPLE_RATE, min_freq, max_freq);
\* append.
LoopTone ==
    /\ pc = "tone"
    /\ \E r \in GenerateTone(args.slide_duration, SAMPLE_RATE,
                             args.min_freq, args.max_freq) :
          IF r.status = "ok"
          THEN /\ audio_segments' = Append(audio_segments, r.buffer)
               /\ pc' = "for"
               /\ error' = error
          ELSE /\ audio_segments' = audio_segments
               /\ pc' = "failed"
               /\ error' = r.status
    /\ UNCHANGED <<args, i, slide_clips, video, audio_clip, gen_log,
                   write_attempts, output_file, slideVars, toneVars>>

\* video = concatenate_videoclips(slide_clips, method="compose"); on an empty
\* list the library raises ValueError (max() of an empty sequence).
ConcatVideo ==
    /\ pc = "concat_video"
    /\ IF slide_clips = <<>>
       THEN /\ pc' = "failed"
            /\ error' = "ValueError"
            /\ video' = video
       ELSE /\ video' = ConcatenateVideoclips(slide_clips)
            /\ pc' = "concat_audio"
            /\ error' = error
    /\ UNCHANGED <<args, i, slide_clips, audio_segments, audio_clip, gen_log,
                   write_attempts, output_file, slideVars, toneVars>>

\* audio_array = np.concatenate(audio_segments, axis=0) (ValueError on an
\* empty list); audio_clip = AudioArrayClip(audio_array, fps=SAMPLE_RATE).
ConcatAudio ==
    /\ pc = "concat_audio"
    /\ IF audio_segments = <<>>
       THEN /\ pc' = "failed"
            /\ error' = "ValueError"
            /\ audio_clip' = audio_clip
       ELSE /\ audio_clip' = AudioArrayClip(audio_segments)
            /\ pc' = "set_audio"
            /\ error' = error
    /\ UNCHANGED <<args, i, slide_clips, audio_segments, video, gen_log,
                   write_attempts, output_file, slideVars, toneVars>>

\* video = video.set_audio(audio_clip)
SetAudio ==
    /\ pc = "set_audio"
    /\ video' = [video EXCEPT !.has_audio = TRUE]
    /\ pc' = "write"
    /\ UNCHANGED <<args, i, slide_clips, audio_segments, audio_clip, error,
                   gen_log, write_attempts, output_file, slideVars, toneVars>>

\* video.write_videofile(file_name, ...): the encoder either writes the file
\* or raises, leaving no file or a partial one.
WriteVideofile ==
    /\ pc = "write"
    /\ write_attempts' = write_attempts + 1
    /\ \/ /\ output_file' = "complete"
          /\ pc' = "done"
          /\ error' = error
       \/ /\ output_file' \in {"none", "partial"}
          /\ pc' = "failed"
          /\ error' = "WriteError"
    /\ UNCHANGED <<args, i, slide_clips, audio_segments, video, audio_clip,
                   gen_log, slideVars, toneVars>>

Next ==
    \/ ForNext
    \/ LoopSlide
    \/ LoopTone
    \/ ConcatVideo
    \/ ConcatAudio
    \/ SetAudio
    \/ WriteVideofile

Spec == Init /\ [][Next]_vars

(* ============================ properties ============================== *)
InCanvas(r, width, height) ==
    /\ 0 <= r.x
    /\ 0 <= r.y
    /\ r.x + r.rect_width <= width
    /\ r.y + r.rect_height <= height
    /\ r.coords = <<r.x, r.y, r.x + r.rect_width, r.y + r.rect_height>>

\* C1: after a call of generate_slide with width >= 100 and height >= 100,
\* whatever the random draws, the blue and the red rectangle lie inside the
\* canvas: 0 <= x, 0 <= y, x + rectWidth <= width, y + rectHeight <= height.
C1_RectsInCanvas ==
    (s_pc = "returned" /\ s_args.width >= 100 /\ s_args.height >= 100)
        => /\ s_result.status \in {"ok", "OSError"}
           /\ InCanvas(s_result.blue, s_args.width, s_args.height)
           /\ InCanvas(s_result.red, s_args.width, s_args.height)

\* A returned slide whose blue rectangle touches the right and bottom edges
\* and whose red rectangle sits in the top-left corner.
C1_Witness ==
    /\ s_pc = "returned"
    /\ s_result.status = "ok"
    /\ s_args.width = 101
    /\ s_args.height = 102
    /\ s_result.blue.coords[3] = s_args.width
    /\ s_result.blue.coords[4] = s_args.height
    /\ s_result.red.x = 0
    /\ s_result.red.y = 0

ValidToneSpec ==
    /\ t_args.duration > 0
    /\ t_args.sample_rate > 0
    /\ t_args.min_freq <= t_args.max_freq

Assembled == video.built /\ audio_clip.built

C4_InvertedRangeRejected ==
    (args.min_freq > args.max_freq)
        => /\ gen_log = <<>>
           /\ slide_clips = <<>>
           /\ write_attempts = 0
           /\ output_file = "none"
           /\ pc # "done"

\* C5: with num_slides = 0 the run fails with ValueError (empty sequence)
\* at the concatenation and never reaches the write of the output file.
C5_ZeroSlidesFails ==
    (pc # "idle" /\ args.num_slides = 0)
        => /\ pc \in {"for", "concat_video", "failed"}
           /\ (pc = "failed" => error = "ValueError")
           /\ (pc # "failed" => error = "none")
           /\ gen_log = <<>>
           /\ write_attempts = 0
           /\ output_file = "none"

\* A run with no slides that has failed at the concatenation.
C5_Witness ==
    /\ args.num_slides = 0
    /\ pc = "failed"
    /\ error = "ValueError"
    /\ ~video.built

\* C6: with width < 100 or height < 100, generate_slide fails with
\* ValueError and draws no rectangle (no image, no clamped sizes); with
\* width = height = 100 and a loadable font it returns an image whose two
\* rectangles are 50 x 50.
C6_SmallCanvasRejected ==
    (s_pc = "returned")
        => /\ (s_args.width < 100 \/ s_args.height < 100)
                => /\ s_result.status = "ValueError"
                   /\ s_result.blue = NoRect
                   /\ s_result.red = NoRect
                   /\ s_result.size = <<0, 0>>
           /\ (s_args.width = 100 /\ s_args.height = 100 /\ s_args.font_ok)
                => /\ s_result.status = "ok"
                   /\ s_result.size = <<100, 100>>
                   /\ s_result.blue.rect_width = 50
                   /\ s_result.blue.rect_height = 50
                   /\ s_result.red.rect_width = 50
                   /\ s_result.red.rect_height = 50

\* A 50 x 50 canvas rejected with ValueError.
C6_Witness ==
    /\ s_pc = "returned"
    /\ s_args.width = 50
    /\ s_args.height = 50
    /\ s_result.status = "ValueError"

CharDigit(c) == CHOOSE d \in 0..9 : DigitChars[d + 1] = c

RECURSIVE DecValue(_)
DecValue(s) ==
    IF s = <<>> THEN 0
    ELSE 10 * DecValue(SubSeq(s, 1, Len(s) - 1)) + CharDigit(s[Len(s)])

IsCaption(t, name, k) ==
    /\ Len(t) = Len(name) + 13
    /\ SubSeq(t, 1, Len(name)) = name
    /\ SubSeq(t, Len(name) + 1, Len(name) + 9)
         = <<" ", "-", " ", "s", "l", "i", "d", "e", " ">>
    /\ \A p \in (Len(name) + 10)..Len(t) :
          \E d \in 1..10 : DigitChars[d] = t[p]
    /\ DecValue(SubSeq(t, Len(name) + 10, Len(t))) = k

\* C7: slides are generated in the order 1, 2, ..., without gap or repeat,
\* never beyond num_slides; the k-th collected clip, and the k-th clip of the
\* assembled timeline, carries "<displayed_file_name> - slide <k>" with k as
\* four zero-padded decimal digits; the timeline holds all num_slides clips.
C7_CaptionsInOrder ==
    (pc # "idle")
        => /\ Len(gen_log) <= args.num_slides
           /\ \A k \in 1..Len(gen_log) : gen_log[k] = k
           /\ Len(slide_clips) <= Len(gen_log)
           /\ \A k \in 1..Len(slide_clips) :
                 IsCaption(slide_clips[k].frame.text,
                           args.displayed_file_name, k)
           /\ video.built
                => /\ Len(video.clips) = args.num_slides
                   /\ video.clips = slide_clips

\* An assembled timeline of at least ten slides whose seventh caption is
\* "aqua.flv - slide 0007".
C7_Witness ==
    /\ video.built
    /\ Len(video.clips) >= 10
    /\ video.clips[7].frame.text =
         AquaFlv \o <<" ", "-", " ", "s", "l", "i", "d", "e", " ",
                      "0", "0", "0", "7">>
    /\ video.clips[10].frame.text =
         AquaFlv \o <<" ", "-", " ", "s", "l", "i", "d", "e", " ",
                      "0", "0", "1", "0">>

\* C8 (as claimed): generate_tone raises an invalid-argument error and
\* returns no buffer whenever durationSeconds <= 0 or sampleRate <= 0.
C8_NonPositiveRejected ==
    (t_pc = "returned"
       /\ (t_args.duration <= 0 \/ t_args.sample_rate <= 0))
        => /\ t_result.status = "ValueError"
           /\ t_result.buffer = NoBuffer

\* C9: the output file is written at most once, only after all num_slides
\* slides and tones are generated and both timelines concatenated and bound;
\* a run that failed in rendering, synthesis or concatenation has attempted
\* no write and left no file, and no slide index is generated twice.
C9_WriteOnceAtEnd ==
    (pc # "idle")
        => /\ write_attempts <= 1
           /\ (write_attempts = 1)
                => /\ pc \in {"done", "failed"}
                   /\ Len(slide_clips) = args.num_slides
                   /\ Len(audio_segments) = args.num_slides
                   /\ video.built
                   /\ audio_clip.built
                   /\ video.has_audio
           /\ (pc = "failed" /\ error # "WriteError")
                => /\ write_attempts = 0
                   /\ output_file = "none"
           /\ (pc = "failed") => error # "none"
           /\ (output_file = "complete") <=> (pc = "done")
           /\ (pc = "done") => (write_attempts = 1 /\ error = "none")
           /\ \A a, b \in 1..Len(gen_log) :
                 gen_log[a] = gen_log[b] => a = b
           /\ Len(audio_segments) <= Len(gen_log)

\* A run of MaxSlides slides that has written its file, once.
C9_Witness ==
    /\ pc = "done"
    /\ args.num_slides >= 3
    /\ write_attempts = 1
    /\ output_file = "complete"

\* C10: the two lists grow in lockstep: slide i is appended before tone i
\* and tone i before slide i + 1, so len(slide_clips) - len(audio_segments)
\* is 0 or 1 in every state, and from the assembly step on both lists hold
\* exactly num_slides elements.
C10_Lockstep ==
    (pc # "idle")
        => /\ Len(slide_clips) - Len(audio_segments) \in {0, 1}
           /\ (pc = "slide")
                => /\ Len(slide_clips) = i - 1
                   /\ Len(audio_segments) = i - 1
           /\ (pc = "tone")
                => /\ Len(slide_clips) = i
                   /\ Len(audio_segments) = i - 1
           /\ (pc = "for")
                => /\ Len(slide_clips) = i
                   /\ Len(audio_segments) = i
           /\ (pc \in {"concat_video", "concat_audio", "set_audio", "write",
                       "done"})
                => /\ Len(slide_clips) = args.num_slides
                   /\ Len(audio_segments) = args.num_slides

\* Slide 2 appended while only tone 1 is.
C10_Witness ==
    /\ pc = "tone"
    /\ i = 2
    /\ Len(slide_clips) = 2
    /\ Len(audio_segments) = 1

=============================================================================
